---- MODULE Spec2Model ----
(***************************************************************************)
(* A model of objects/runners.py (FunctionRunner), of the field functions  *)
(* of objects/functions.py it is run with and of that module's             *)
(* generate_orthonormal_bases.                                             *)
(*                                                                         *)
(* Numbers.  The program computes in float64.  The model computes in the   *)
(* integers and draws its inputs so that every value the program computes  *)
(* on them is an integer: range limits whose difference every segment      *)
(* count divides, angles that are whole quarter turns (cos and sin are     *)
(* then -1, 0 or 1) and projection bases with one non-zero entry per row   *)
(* and column (numpy's Householder QR of those has entries -1, 0, 1).      *)
(*                                                                         *)
(* Arrays.  A numpy array is a record [shape, data]: shape is the tuple of *)
(* its axis lengths, data maps every 0-based index tuple to its value.     *)
(*                                                                         *)
(* Calls.  A call of a method is one step from pc = "idle" to              *)
(* pc = "returned"; that state holds the call's arguments, the exception   *)
(* it raised (or None) and the method's local variables as they were when  *)
(* it ended.  Return takes the caller back to "idle".                      *)
(***************************************************************************)
EXTENDS Integers, Sequences, FiniteSets, TLC

VARIABLES fn, computed_points, animation_frames, pc, call, raised, locals

vars == <<fn, computed_points, animation_frames, pc, call, raised, locals>>

(***************************************************************************)
(* Bounds of the model.                                                    *)
(***************************************************************************)
MaxSegments == 2

MaxRotationSegments == 2

(***************************************************************************)
(* Python values.                                                          *)
(***************************************************************************)
None == [tag |-> "None"]

Exc(type, detail) == [tag |-> "exception", type |-> type, detail |-> detail]

(***************************************************************************)
(* numpy arrays.                                                           *)
(***************************************************************************)
RECURSIVE Indices(_)
Indices(shape) ==
    IF shape = <<>> THEN {<<>>}
    ELSE {<<i>> \o rest : i \in 0..(shape[1] - 1), rest \in Indices(Tail(shape))}

\* TLC evaluates a function constructor anew at every application; comparing
\* the function makes it build the function's table, once.
Table(f) == IF f = f THEN f ELSE f

Array(shape, cells) == [tag |-> "ndarray", shape |-> shape, data |-> Table(cells)]

ndim(a) == Len(a.shape)

RECURSIVE SumTo(_, _)
SumTo(n, f) == IF n = 0 THEN 0 ELSE f[n - 1] + SumTo(n - 1, f)

\* np.linspace(start, stop, num) for num >= 0: num evenly spaced samples, the
\* first start and, when num > 1, the last stop; a single sample is start.
linspace(start, stop, num) ==
    Array(<<num>>, [idx \in Indices(<<num>>) |->
        IF num = 1 THEN start
        ELSE start + (idx[1] * (stop - start)) \div (num - 1)])

\* np.linspace raises ValueError for a negative number of samples.
linspace_raises(num) == num < 0

\* np.meshgrid(*arrays) with its default indexing="xy": every output has the
\* shape (len(arrays[1]), len(arrays[0]), len(arrays[2]), ...), and output i
\* repeats arrays[i] along the axis that carries its length.
meshgrid_axis(i) == IF i = 1 THEN 2 ELSE IF i = 2 THEN 1 ELSE i

meshgrid(arrays) ==
    LET n == Len(arrays)
        shape == [a \in 1..n |-> arrays[meshgrid_axis(a)].shape[1]]
    IN  Table([i \in 1..n |->
            Array(shape, [idx \in Indices(shape) |-> arrays[i].data[<<idx[meshgrid_axis(i)]>>]])])

\* np.array(points_list) of equally shaped arrays: stacked along a new axis 0.
np_array(points_list) ==
    Array(<<Len(points_list)>> \o points_list[1].shape,
          [idx \in Indices(<<Len(points_list)>> \o points_list[1].shape) |-> points_list[idx[1] + 1].data[Tail(idx)]])

(***************************************************************************)
(* Field functions.                                                        *)
(***************************************************************************)
\* functions.simple_complex_square: (x + iy)^2 as (real, imaginary), and None
\* unless it is called with exactly two arrays.
simple_complex_square(args) ==
    IF Len(args) = 2
    THEN [tag |-> "tuple", items |->
            <<Array(args[1].shape, [idx \in Indices(args[1].shape) |->
                args[1].data[idx] * args[1].data[idx]
                    - args[2].data[idx] * args[2].data[idx]]),
              Array(args[1].shape, [idx \in Indices(args[1].shape) |->
                2 * args[1].data[idx] * args[2].data[idx]])>>]
    ELSE None

\* A callable of the caller's own, of any arity: one output channel, the sum
\* of the squares of its arguments.
sum_of_squares(args) ==
    [tag |-> "tuple", items |->
        <<Array(args[1].shape, [idx \in Indices(args[1].shape) |->
            SumTo(Len(args), [a \in 0..(Len(args) - 1) |->
                args[a + 1].data[idx] * args[a + 1].data[idx]])])>>]

FieldFunctions == {"simple_complex_square", "sum_of_squares"}

\* self.fn(*coordinates)
call_fn(f, args) ==
    IF f = "simple_complex_square" THEN simple_complex_square(args)
    ELSE sum_of_squares(args)

(***************************************************************************)
(* FunctionRunner.build_coordinates                                        *)
(***************************************************************************)
\* The exception build_coordinates ends with, or None.
build_coordinates_raises(ranges) ==
    IF Len(ranges) > 1
    THEN IF \E i \in 1..Len(ranges) : linspace_raises(ranges[i].segments + 1)
         THEN Exc("ValueError", <<"Number of samples must be non-negative">>)
         ELSE None
    ELSE IF Len(ranges) = 1
    THEN \* line 109 reads number_range, a local the loop of the other branch binds
         Exc("UnboundLocalError", <<"number_range">>)
    ELSE None

\* The value build_coordinates returns when it raises nothing.
build_coordinates(ranges) ==
    IF Len(ranges) > 1
    THEN [tag |-> "list", items |->
            meshgrid(Table([i \in 1..Len(ranges) |->
                linspace(ranges[i].min, ranges[i].max, ranges[i].segments + 1)]))]
    ELSE None

(***************************************************************************)
(* FunctionRunner.compute_points                                           *)
(***************************************************************************)
Unbound == [tag |-> "unbound"]

\* The locals of compute_points when it ends, the exception it ends with and
\* the computed_points it leaves.
compute_points_locals(f, ranges) ==
    IF build_coordinates_raises(ranges) # None
    THEN [coordinates |-> Unbound, results |-> Unbound]
    ELSE LET coordinates == build_coordinates(ranges)
         IN  IF coordinates = None
             THEN [coordinates |-> None, results |-> Unbound]
             ELSE [coordinates |-> coordinates,
                   results |-> call_fn(f, coordinates.items)]

compute_points_result(old, ranges, l) ==
    IF l.coordinates \in {Unbound, None} \/ l.results = None
    THEN old
    ELSE [tag |-> "dict", ranges |-> ranges,
          points |-> np_array(l.coordinates.items \o l.results.items)]

compute_points(ranges) ==
    /\ pc = "idle"
    /\ LET l == compute_points_locals(fn, ranges)
       IN  /\ locals' = l
           /\ computed_points' = compute_points_result(computed_points, ranges, l)
    /\ raised' = build_coordinates_raises(ranges)
    /\ call' = [op |-> "compute_points", ranges |-> ranges]
    /\ pc' = "returned"
    /\ UNCHANGED <<fn, animation_frames>>

(***************************************************************************)
(* Matrices.                                                               *)
(***************************************************************************)
\* a @ b for a stack b of column vectors (or one vector) under the matrix a:
\* numpy raises ValueError unless a's columns are as many as b's rows.
matmul_raises(a, b) == a.shape[2] # b.shape[1]

matmul(a, b) ==
    Array(<<a.shape[1]>> \o Tail(b.shape), [idx \in Indices(<<a.shape[1]>> \o Tail(b.shape)) |->
        SumTo(a.shape[2], [c \in 0..(a.shape[2] - 1) |->
            a.data[<<idx[1], c>>] * b.data[<<c>> \o Tail(idx)]])])

\* rotator[ : , : , i]
frame_of(rotator, i) ==
    Array(<<rotator.shape[1], rotator.shape[2]>>,
          [idx \in Indices(<<rotator.shape[1], rotator.shape[2]>>) |-> rotator.data[<<idx[1], idx[2], i>>]])

\* np.array(basis_vectors) of a list of equally long lists of numbers
matrix_of(rows) ==
    Array(<<Len(rows), Len(rows[1])>>, [idx \in Indices(<<Len(rows), Len(rows[1])>>) |-> rows[idx[1] + 1][idx[2] + 1]])

identity(n) == Array(<<n, n>>, [idx \in Indices(<<n, n>>) |-> IF idx[1] = idx[2] THEN 1 ELSE 0])

\* The Householder reflector LAPACK builds for column i of a when the only
\* non-zero entry of that column on or below the diagonal is at row p > i:
\* alpha = 0, beta = -|a[p, i]|, tau = 1, v = e_i + sign(a[p, i]) e_p, so that
\* H = I - v v^T exchanges e_i and e_p and negates by that sign.
reflector(n, i, p, sign) ==
    Array(<<n, n>>, [idx \in Indices(<<n, n>>) |->
        IF {idx[1], idx[2]} = {i, p} THEN -sign
        ELSE IF idx[1] = idx[2] /\ idx[1] \notin {i, p} THEN 1
        ELSE 0])

RECURSIVE householder(_, _, _)
householder(a, q, i) ==
    IF i >= a.shape[1] \/ i >= a.shape[2] THEN q
    ELSE LET below == {p \in (i + 1)..(a.shape[1] - 1) : a.data[<<p, i>>] # 0}
         IN  IF below = {}
             THEN \* xnorm = 0: tau = 0 and H = I
                  householder(a, q, i + 1)
             ELSE LET p == CHOOSE x \in below : TRUE
                      h == reflector(a.shape[1], i, p,
                                     IF a.data[<<p, i>>] > 0 THEN 1 ELSE -1)
                  IN  householder(matmul(h, a), matmul(q, h), i + 1)

\* Q of np.linalg.qr(a) (mode "reduced"), for a matrix with at most one
\* non-zero entry in every column: every reflector exchanges two rows, so the
\* columns keep that form from step to step.
qr(a) ==
    LET q == householder(a, identity(a.shape[1]), 0)
        k == IF a.shape[1] < a.shape[2] THEN a.shape[1] ELSE a.shape[2]
    IN  Array(<<a.shape[1], k>>, [idx \in Indices(<<a.shape[1], k>>) |-> q.data[idx]])

(***************************************************************************)
(* FunctionRunner.animate_rotation                                         *)
(***************************************************************************)
\* Cells of a transform: a number or a string.
Num(x) == [num |-> x]

Str(x) == [str |-> x]

is_str(element) == "str" \in DOMAIN element

KnownMultipliers == {"cos", "-cos", "sin", "-sin"}

\* np.cos and np.sin of an angle given in quarter turns
np_cos(theta) == IF theta % 4 = 0 THEN 1 ELSE IF theta % 4 = 2 THEN -1 ELSE 0

np_sin(theta) == IF theta % 4 = 1 THEN 1 ELSE IF theta % 4 = 3 THEN -1 ELSE 0

\* lines 180-192: the value an element takes at the angle theta
element_value(element, theta) ==
    IF is_str(element)
    THEN IF element.str = "cos" THEN np_cos(theta)
         ELSE IF element.str = "-cos" THEN -np_cos(theta)
         ELSE IF element.str = "sin" THEN np_sin(theta)
         ELSE -np_sin(theta)
    ELSE element.num

\* lines 172-192 for one rotation: its rotator, of shape (rows, columns, frames)
build_rotator(rotation, segments) ==
    LET thetas == linspace(rotation.min, rotation.max, segments + 1)
    IN  Array(<<Len(rotation.transform), Len(rotation.transform[1]), segments + 1>>,
              [idx \in Indices(<<Len(rotation.transform), Len(rotation.transform[1]), segments + 1>>) |-> element_value(rotation.transform[idx[1] + 1][idx[2] + 1],
                                         thetas.data[<<idx[3]>>])])

\* The cells <<i, j, k>> (transform, row, column) that reach the else of line 189
invalid_cells(rotations) ==
    {c \in UNION {UNION {{<<i, j, k>> :
                     k \in 0..(Len(rotations.transforms[i + 1].transform[j + 1]) - 1)} :
                 j \in 0..(Len(rotations.transforms[i + 1].transform) - 1)} :
             i \in 0..(Len(rotations.transforms) - 1)} :
        LET element == rotations.transforms[c[1] + 1].transform[c[2] + 1][c[3] + 1]
        IN  is_str(element) /\ element.str \notin KnownMultipliers}

lex_less(a, b) ==
    \E n \in 1..Len(a) : a[n] < b[n] /\ \A m \in 1..(n - 1) : a[m] = b[m]

first_of(cells) == CHOOSE c \in cells : \A d \in cells : d = c \/ lex_less(c, d)

\* Line 190: the f-string names multiplier, row_counter and column_counter,
\* none of which the method binds: evaluating it raises NameError, and the
\* Exception with the message is never built.
raise_invalid_multiplier(element, j, k) == Exc("NameError", <<"multiplier">>)

\* basis_matches without the comparison of sizes
basis_matches_unchecked(basis_vectors, composite_shape) == basis_vectors # None

\* Lines 201-207
basis_matches(basis_vectors, composite_shape) ==
    /\ basis_vectors # None
    /\ Len(basis_vectors.rows) = composite_shape[1]
    /\ Len(basis_vectors.rows[1]) = composite_shape[2]

\* rotator_product with the operands of line 220 exchanged
RECURSIVE rotator_product_exchanged(_, _, _)
rotator_product_exchanged(rotators, i, n) ==
    IF n = 1 THEN frame_of(rotators[1], i)
    ELSE LET left == rotator_product_exchanged(rotators, i, n - 1)
             right == frame_of(rotators[n], i)
         IN  IF left.tag = "exception" THEN left
             ELSE IF matmul_raises(right, left)
             THEN Exc("ValueError", <<"matmul", right.shape, left.shape>>)
             ELSE matmul(right, left)

\* Lines 216-224 for frame i: the frame's rotator, or the exception of a product
RECURSIVE rotator_product(_, _, _)
rotator_product(rotators, i, n) ==
    IF n = 1 THEN frame_of(rotators[1], i)
    ELSE LET left == rotator_product(rotators, i, n - 1)
             right == frame_of(rotators[n], i)
         IN  IF left.tag = "exception" THEN left
             ELSE IF matmul_raises(left, right)
             THEN Exc("ValueError", <<"matmul", left.shape, right.shape>>)
             ELSE matmul(left, right)

frame_rotator(rotators, i, has_orthonormal_basis, orthonormal_basis) ==
    LET product == rotator_product(rotators, i, Len(rotators))
    IN  IF product.tag = "exception" \/ ~has_orthonormal_basis THEN product
        ELSE IF matmul_raises(product, orthonormal_basis)
        THEN Exc("ValueError", <<"matmul", product.shape, orthonormal_basis.shape>>)
        ELSE matmul(product, orthonormal_basis)

\* Lines 169-226: the locals when the composite rotator is complete, or the
\* exception that ends the method before.
build_composite(rotations, basis_vectors) ==
    LET bad == invalid_cells(rotations)
    IN  IF bad # {}
        THEN LET c == first_of(bad)
             IN  [raised |-> raise_invalid_multiplier(
                                 rotations.transforms[c[1] + 1].transform[c[2] + 1][c[3] + 1],
                                 c[2], c[3])]
        ELSE
        LET rotators == Table([i \in 1..Len(rotations.transforms) |->
                            build_rotator(rotations.transforms[i], rotations.segments)])
            shape == rotators[1].shape
            has_orthonormal_basis == basis_matches(basis_vectors, shape)
            orthonormal_basis == IF has_orthonormal_basis
                                 THEN qr(matrix_of(basis_vectors.rows)) ELSE None
            frames == Table([i \in 0..rotations.segments |->
                          frame_rotator(rotators, i, has_orthonormal_basis, orthonormal_basis)])
        IN  IF \E i \in 0..rotations.segments : frames[i].tag = "exception"
            THEN [raised |-> frames[0]]
            ELSE IF \E i \in 0..rotations.segments :
                        <<frames[i].shape[1], frames[i].shape[2]>> # <<shape[1], shape[2]>>
            THEN [raised |-> Exc("ValueError", <<"broadcast", frames[0].shape, shape>>)]
            ELSE [raised |-> None,
                  rotators |-> rotators,
                  has_orthonormal_basis |-> has_orthonormal_basis,
                  orthonormal_basis |-> orthonormal_basis,
                  composite_rotator |->
                      Array(shape, [idx \in Indices(shape) |-> frames[idx[3]].data[<<idx[1], idx[2]>>]])]

\* Line 240 at the iteration (j, k) of the loops of lines 238-239: the exception
\* it raises, or None.  points[ : , j, k] needs three axes and j, k within the
\* second and third; the product needs as many columns as points has channels.
apply_raises(composite_rotator, points, j, k) ==
    IF ndim(points) < 3
    THEN Exc("IndexError", <<"too many indices for array">>)
    ELSE IF j >= points.shape[2] \/ k >= points.shape[3]
    THEN Exc("IndexError", <<"index out of bounds", j, k>>)
    ELSE IF composite_rotator.shape[2] # points.shape[1]
    THEN Exc("ValueError", <<"matmul", composite_rotator.shape, points.shape[1]>>)
    ELSE None

\* The iterations <<j, k>> of lines 238-239, and those where line 240 raises
iterations(points) ==
    {<<j, k>> : j \in 0..(points.shape[ndim(points) - 1] - 1),
                k \in 0..(points.shape[ndim(points)] - 1)}

raising_iterations(composite_rotator, points) ==
    {it \in iterations(points) :
        apply_raises(composite_rotator, points, it[1], it[2]) # None}

\* Lines 231-240: the frames array when the loops end, normally or not.  np.empty
\* leaves the cells the loops never assign with whatever the memory held (empty).
\* An exception does not depend on the frame i, so the first is raised in frame 0.
apply_frames(composite_rotator, points, segments, empty) ==
    LET its == iterations(points)
        raising == raising_iterations(composite_rotator, points)
        done == IF raising = {} THEN its
                ELSE {it \in its : lex_less(it, first_of(raising))}
        assigned(idx) ==
            /\ ndim(points) >= 3
            /\ <<idx[3], idx[4]>> \in done
            /\ raising = {} \/ idx[1] = 0
    IN  Array(<<segments + 1>> \o points.shape, [idx \in Indices(<<segments + 1>> \o points.shape) |->
            IF assigned(idx)
            THEN SumTo(composite_rotator.shape[2],
                       [c \in 0..(composite_rotator.shape[2] - 1) |->
                           composite_rotator.data[<<idx[2], c, idx[1]>>]
                               * points.data[<<c>> \o Tail(Tail(idx))]])
            ELSE empty])

apply_raised(composite_rotator, points) ==
    LET raising == raising_iterations(composite_rotator, points)
    IN  IF raising = {} THEN None
        ELSE LET it == first_of(raising)
             IN  apply_raises(composite_rotator, points, it[1], it[2])

\* What np.empty may leave in a cell
EmptyValues == {0, 7}

animate_rotation(rotations, basis_vectors) ==
    /\ pc = "idle"
    /\ pc' = "returned"
    /\ call' = [op |-> "animate_rotation", rotations |-> rotations,
                basis_vectors |-> basis_vectors]
    /\ UNCHANGED <<fn, computed_points>>
    /\ IF computed_points = None
       THEN \* line 168: nothing to do
            /\ raised' = None
            /\ locals' = Unbound
            /\ UNCHANGED animation_frames
       ELSE LET l == build_composite(rotations, basis_vectors)
            IN  /\ locals' = l
                /\ IF l.raised # None
                   THEN /\ raised' = l.raised
                        /\ UNCHANGED animation_frames
                   ELSE /\ raised' = apply_raised(l.composite_rotator,
                                                  computed_points.points)
                        /\ \E empty \in EmptyValues :
                             animation_frames' =
                                [tag |-> "dict",
                                 ranges |-> computed_points.ranges,
                                 frames |-> apply_frames(l.composite_rotator,
                                                computed_points.points,
                                                rotations.segments, empty)]

(***************************************************************************)
(* functions.generate_orthonormal_bases                                    *)
(***************************************************************************)
\* The position an index i selects on an axis of the given size, and whether
\* numpy raises IndexError for it
py_index(i, size) == IF i < 0 THEN i + size ELSE i

index_raises(i, size) == i < -size \/ i >= size

\* Line 33: np.array(basis).T, the vectors of the basis as columns, repeated
\* n times along a third axis
initial_vector_set(basis, n) ==
    Array(<<Len(basis[1]), Len(basis), n>>,
          [idx \in Indices(<<Len(basis[1]), Len(basis), n>>) |->
              basis[idx[2] + 1][idx[1] + 1]])

\* Lines 36-46: zeros, then ones on the diagonal at the positions i that are
\* not in rotate_elements (line 38 compares the numbers as they are given),
\* then the four assignments of lines 43-46 in their order: a later one
\* overwrites an earlier one at the same cell.
rotation_transforms(shape, rotate_elements, angles) ==
    LET e0 == py_index(rotate_elements[1], shape[1])
        e1 == py_index(rotate_elements[2], shape[1])
        f0 == py_index(rotate_elements[1], shape[2])
        f1 == py_index(rotate_elements[2], shape[2])
        given == {rotate_elements[x] : x \in 1..Len(rotate_elements)}
    IN  Array(shape, [idx \in Indices(shape) |->
            IF idx[1] = e1 /\ idx[2] = f1 THEN np_cos(angles.data[<<idx[3]>>])
            ELSE IF idx[1] = e1 /\ idx[2] = f0 THEN np_sin(angles.data[<<idx[3]>>])
            ELSE IF idx[1] = e0 /\ idx[2] = f1 THEN -np_sin(angles.data[<<idx[3]>>])
            ELSE IF idx[1] = e0 /\ idx[2] = f0 THEN np_cos(angles.data[<<idx[3]>>])
            ELSE IF idx[1] = idx[2] /\ idx[1] \notin given THEN 1
            ELSE 0])

\* vector_set[ : , v, i] as a vector
vector_of(vector_set, v, i) ==
    Array(<<vector_set.shape[1]>>, [idx \in Indices(<<vector_set.shape[1]>>) |->
        vector_set.data[<<idx[1], v, i>>]])

\* rotated_vectors with the transform applied to every vector of the set
rotated_vectors_all(vector_set, transforms, rotate_vector) ==
    Array(vector_set.shape, [idx \in Indices(vector_set.shape) |->
        matmul(frame_of(transforms, idx[3]),
               vector_of(vector_set, idx[2], idx[3])).data[<<idx[1]>>]])

\* Lines 49-50: in every frame the vector rotate_vector is replaced by the
\* frame's transform applied to it
rotated_vectors(vector_set, transforms, rotate_vector) ==
    LET v == py_index(rotate_vector, vector_set.shape[2])
        rotated == Table([i \in 0..(vector_set.shape[3] - 1) |->
                       matmul(frame_of(transforms, i), vector_of(vector_set, v, i))])
    IN  Array(vector_set.shape, [idx \in Indices(vector_set.shape) |->
            IF idx[2] = v THEN rotated[idx[3]].data[<<idx[1]>>]
            ELSE vector_set.data[idx]])

\* Lines 53-55: Q of the QR decomposition of every frame's vectors
orthonormalize(vector_set) ==
    LET q == Table([i \in 0..(vector_set.shape[3] - 1) |-> qr(frame_of(vector_set, i))])
    IN  Array(vector_set.shape, [idx \in Indices(vector_set.shape) |->
            q[idx[3]].data[<<idx[1], idx[2]>>]])

\* The exception generate_orthonormal_bases ends with, or None: np.repeat
\* refuses a negative count (line 33); lines 39 and 43-46 index the first two
\* axes of transforms, of sizes k (the length of a vector) and m (the number of
\* vectors); line 50 indexes the vectors and multiplies a k x m matrix with a
\* vector of length k.
generate_orthonormal_bases_raises(basis, rotate_basis) ==
    LET m == Len(basis)
        k == Len(basis[1])
        n == rotate_basis.segments + 1
        e == rotate_basis.rotate_elements
        given == {e[x] : x \in 1..Len(e)}
    IN  IF n < 0
        THEN Exc("ValueError", <<"repeats may not contain negative values">>)
        ELSE IF \E i \in 0..(m - 1) : i \notin given /\ i >= k
        THEN Exc("IndexError", <<"transforms">>)
        ELSE IF \E x \in 1..2 : index_raises(e[x], k) \/ index_raises(e[x], m)
        THEN Exc("IndexError", <<"rotate_elements">>)
        ELSE IF n >= 1 /\ index_raises(rotate_basis.rotate_vector, m)
        THEN Exc("IndexError", <<"rotate_vector">>)
        ELSE IF n >= 1 /\ m # k
        THEN Exc("ValueError", <<"matmul", <<k, m>>, <<k>>>>)
        ELSE None

\* The locals of generate_orthonormal_bases when it returns
generate_orthonormal_bases_locals(basis, rotate_basis) ==
    LET n == rotate_basis.segments + 1
        initial == initial_vector_set(basis, n)
        angles == linspace(rotate_basis.min, rotate_basis.max, rotate_basis.segments + 1)
        transforms == rotation_transforms(initial.shape, rotate_basis.rotate_elements, angles)
        vector_set == rotated_vectors(initial, transforms, rotate_basis.rotate_vector)
    IN  [n |-> n, angles |-> angles, transforms |-> transforms,
         vector_set |-> vector_set, orthonormals |-> orthonormalize(vector_set)]

\* A call of the function: it reads and writes nothing but its arguments and
\* its locals, and returns the orthonormals alone or with the vector set.
generate_orthonormal_bases(basis, rotate_basis, return_vector_set) ==
    /\ pc = "idle"
    /\ pc' = "returned"
    /\ call' = [op |-> "generate_orthonormal_bases", basis |-> basis,
                rotate_basis |-> rotate_basis,
                return_vector_set |-> return_vector_set]
    /\ raised' = generate_orthonormal_bases_raises(basis, rotate_basis)
    /\ locals' =
          IF generate_orthonormal_bases_raises(basis, rotate_basis) # None
          THEN Unbound
          ELSE LET l == generate_orthonormal_bases_locals(basis, rotate_basis)
               IN  l @@
                   [result |-> IF return_vector_set
                               THEN [tag |-> "tuple",
                                     items |-> <<l.orthonormals, l.vector_set>>]
                               ELSE l.orthonormals]
    /\ UNCHANGED <<fn, computed_points, animation_frames>>

\* The caller takes the outcome of the call and goes on.
Return ==
    /\ pc = "returned"
    /\ pc' = "idle"
    /\ call' = None
    /\ raised' = None
    /\ locals' = None
    /\ UNCHANGED <<fn, computed_points, animation_frames>>

(***************************************************************************)
(* Inputs.                                                                 *)
(***************************************************************************)
RangeSegments == (-2..0) \cup (1..MaxSegments)

Ranges == {[min |-> 0, max |-> 6, segments |-> s] : s \in RangeSegments}

RangeLists == UNION {[1..n -> Ranges] : n \in 0..3}

\* Transforms: rotations in the plane of two axes, the angle in quarter turns.
rotate_x_y == <<
    <<Str("cos"), Str("-sin"), Num(0), Num(0)>>,
    <<Str("sin"), Str("cos"),  Num(0), Num(0)>>,
    <<Num(0),     Num(0),      Num(1), Num(0)>>,
    <<Num(0),     Num(0),      Num(0), Num(1)>> >>

rotate_y_z == <<
    <<Num(1), Num(0),      Num(0),      Num(0)>>,
    <<Num(0), Str("-cos"), Str("sin"),  Num(0)>>,
    <<Num(0), Str("-sin"), Str("-cos"), Num(0)>>,
    <<Num(0), Num(0),      Num(0),      Num(2)>> >>

rotate_3 == <<
    <<Str("cos"), Num(0), Str("sin")>>,
    <<Num(0),     Num(1), Num(0)>>,
    <<Str("-sin"), Num(0), Str("cos")>> >>

rotate_tan == <<
    <<Num(1), Num(0),     Num(0),     Num(0)>>,
    <<Num(0), Str("cos"), Str("tan"), Num(0)>>,
    <<Num(0), Str("sin"), Str("cos"), Num(0)>>,
    <<Num(0), Num(0),     Num(0),     Num(1)>> >>

Transforms == {rotate_x_y, rotate_y_z, rotate_3, rotate_tan}

TransformSpecs == {[min |-> 1, max |-> 7, transform |-> t] : t \in Transforms}

TransformLists ==
    {<<t>> : t \in TransformSpecs}
        \cup {<<t, u>> : t \in {x \in TransformSpecs : x.transform = rotate_x_y},
                         u \in {x \in TransformSpecs : x.transform # rotate_tan}}
        \cup {<<t, u>> : t \in {x \in TransformSpecs : x.transform = rotate_y_z},
                         u \in {x \in TransformSpecs : x.transform = rotate_x_y}}

Rotations == {[segments |-> n, transforms |-> ts] :
                 n \in 1..MaxRotationSegments, ts \in TransformLists}

\* Projection bases: of the transforms' size and not
Bases == {
    None,
    [tag |-> "list", rows |-> << <<0, 2, 0, 0>>, <<0, 0, 0, 1>>,
                                 <<0, 0, -1, 0>>, <<3, 0, 0, 0>> >>],
    [tag |-> "list", rows |-> << <<0, 1, 0>>, <<1, 0, 0>>, <<0, 0, 1>> >>],
    [tag |-> "list", rows |-> << <<1, 0>>, <<0, 1>>, <<0, 0>>, <<0, 0>> >>] }

\* Initial bases, as lists of vectors: two or three vectors of length two or
\* three, each with one non-zero element (so that every vector set the function
\* decomposes has integer Q), with vectors that repeat and with as many
\* vectors as elements and not.
InitialBases == {
    << <<1, 0>>, <<0, 1>> >>,
    << <<0, 2>>, <<-1, 0>> >>,
    << <<1, 0>>, <<1, 0>> >>,
    << <<1, 0, 0>>, <<0, 1, 0>>, <<0, 0, 1>> >>,
    << <<0, 0, -2>>, <<3, 0, 0>>, <<0, 1, 0>> >>,
    << <<1, 0, 0>>, <<0, 1, 0>> >>,
    << <<1, 0>>, <<0, 1>>, <<-1, 0>> >> }

\* The sweeps of a basis: any vector, any two elements (counted from the end
\* too), angles in quarter turns
RotateBases(basis) ==
    {[rotate_vector |-> v, rotate_elements |-> <<a, b>>,
      min |-> sweep[1], max |-> sweep[2], segments |-> s] :
        v \in -1..(Len(basis) - 1),
        a \in -1..(Len(basis[1]) - 1),
        b \in -1..(Len(basis[1]) - 1),
        sweep \in {<<0, 6>>, <<1, 7>>},
        s \in -2..MaxRotationSegments}

\* The range lists the runner is driven with before its first animation
AnimateRangeLists ==
    {<<>>}
        \cup {<<a, b>> : a, b \in {r \in Ranges : r.segments \in {-1} \cup (1..MaxSegments)}}
        \cup {<<a, b, c>> : a, b \in {r \in Ranges : r.segments >= 1},
                            c \in {r \in Ranges : r.segments = 1}}

\* The calls a runner is driven with in any order, any number of times
RunnerRangeLists ==
    {<<>>}
        \cup {<<a, b>> : a \in {r \in Ranges : r.segments = 1},
                         b \in {r \in Ranges : r.segments \in {1, MaxSegments}}}
        \cup {<<a, a, a>> : a \in {r \in Ranges : r.segments = 1}}

RunnerRotations ==
    {r \in Rotations : r.segments = MaxRotationSegments /\ Len(r.transforms) = 1}

Init ==
    /\ fn \in FieldFunctions
    /\ computed_points = None
    /\ animation_frames = None
    /\ pc = "idle"
    /\ call = None
    /\ raised = None
    /\ locals = None

Next ==
    \/ \E ranges \in RunnerRangeLists : compute_points(ranges)
    \/ \E rotations \in RunnerRotations : animate_rotation(rotations, None)
    \/ Return

Spec == Init /\ [][Next]_vars

\* The first animation of a runner, after any computations
NextAnimate ==
    \/ animation_frames = None
          /\ \E ranges \in AnimateRangeLists : compute_points(ranges)
    \/ animation_frames = None
          /\ \E rotations \in Rotations, basis_vectors \in Bases :
                animate_rotation(rotations, basis_vectors)
    \/ Return

SpecAnimate == Init /\ [][NextAnimate]_vars

\* Computations alone
NextCoordinates ==
    \/ \E ranges \in RangeLists : compute_points(ranges)
    \/ Return

SpecCoordinates == Init /\ [][NextCoordinates]_vars

\* Calls of generate_orthonormal_bases alone
NextBases ==
    \/ \E basis \in InitialBases, return_vector_set \in BOOLEAN :
          \E rotate_basis \in RotateBases(basis) :
             generate_orthonormal_bases(basis, rotate_basis, return_vector_set)
    \/ Return

SpecBases == Init /\ [][NextBases]_vars

(***************************************************************************)
(* Properties.                                                             *)
(***************************************************************************)
Returned(op) == pc = "returned" /\ call.op = op

\* The size k of a rotation set whose transforms are all k x k
RotationSize(rotations) == Len(rotations.transforms[1].transform)

AllSquare(rotations) ==
    \A n \in 1..Len(rotations.transforms) :
        /\ Len(rotations.transforms[n].transform) = RotationSize(rotations)
        /\ \A j \in 1..RotationSize(rotations) :
              Len(rotations.transforms[n].transform[j]) = RotationSize(rotations)

IsError(e, type) == e # None /\ e.type = type

\* C1: when animate_rotation raises, animation_frames is what it was before the
\* call.
C1_FailureKeepsFrames ==
    [][(pc' = "returned" /\ call'.op = "animate_rotation" /\ raised' # None)
          => animation_frames' = animation_frames]_vars

\* C2: with a point cloud held, transforms that are all k x k and point vectors
\* of a length other than k, animate_rotation raises the error of a dimension
\* mismatch (numpy's ValueError); it never returns normally.
C2_MismatchRaises ==
    (/\ Returned("animate_rotation")
     /\ computed_points # None
     /\ invalid_cells(call.rotations) = {}
     /\ AllSquare(call.rotations)
     /\ RotationSize(call.rotations) # computed_points.points.shape[1])
        => IsError(raised, "ValueError")

\* A basis that is given and is not k x k
BasisMismatch(basis_vectors, rotations) ==
    /\ basis_vectors # None
    /\ \/ Len(basis_vectors.rows) # RotationSize(rotations)
       \/ Len(basis_vectors.rows[1]) # RotationSize(rotations)

C4_InvalidCellNamed ==
    (/\ Returned("animate_rotation")
     /\ computed_points # None
     /\ invalid_cells(call.rotations) # {})
        => \E c \in invalid_cells(call.rotations) :
              /\ IsError(raised, "Exception")
              /\ raised.detail =
                    <<call.rotations.transforms[c[1] + 1].transform[c[2] + 1][c[3] + 1].str,
                      c[2], c[3]>>

\* C5: compute_points with no range, or with a range of fewer than one segment,
\* raises.
C5_InvalidRangesRaise ==
    (/\ Returned("compute_points")
     /\ \/ call.ranges = <<>>
        \/ \E i \in 1..Len(call.ranges) : call.ranges[i].segments < 1)
        => raised # None

\* C6: build_coordinates with exactly one range of s >= 1 segments returns a
\* sequence of s + 1 samples, the first min and the last max.
C6_OneRangeSequence ==
    (/\ Returned("compute_points")
     /\ Len(call.ranges) = 1
     /\ call.ranges[1].segments >= 1)
        => /\ raised = None
           /\ locals.coordinates.tag = "ndarray"
           /\ locals.coordinates.shape = <<call.ranges[1].segments + 1>>
           /\ locals.coordinates.data[<<0>>] = call.ranges[1].min
           /\ locals.coordinates.data[<<call.ranges[1].segments>>] = call.ranges[1].max

\* C7: for two or more ranges of one segment or more each, every coordinate
\* array build_coordinates returns has ranges[i].segments + 1 samples along its
\* axis i.
C7_AxisLengths ==
    (/\ Returned("compute_points")
     /\ Len(call.ranges) >= 2
     /\ \A i \in 1..Len(call.ranges) : call.ranges[i].segments >= 1)
        => /\ raised = None
           /\ \A a \in 1..Len(locals.coordinates.items) :
                 \A i \in 1..Len(call.ranges) :
                    locals.coordinates.items[a].shape[i] = call.ranges[i].segments + 1

\* The product the claim C8 names, written out: R1[f] x (R2[f] x ... (Rn[f] x Q)),
\* every entry the sum over the inner index.
ClaimedTimes(a, b) ==
    [r \in 0..(a.shape[1] - 1) |-> [c \in 0..(b.shape[2] - 1) |->
        SumTo(a.shape[2], [m \in 0..(a.shape[2] - 1) |->
            a.data[<<r, m>>] * b.data[<<m, c>>]])]]

AsMatrix(rows) ==
    Array(<<Cardinality(DOMAIN rows), Cardinality(DOMAIN rows[0])>>,
          [idx \in Indices(<<Cardinality(DOMAIN rows), Cardinality(DOMAIN rows[0])>>) |-> rows[idx[1]][idx[2]]])

RECURSIVE ClaimedProduct(_, _, _, _)
ClaimedProduct(rotations, f, n, last) ==
    LET rn == frame_of(build_rotator(rotations.transforms[n], rotations.segments), f)
    IN  IF n = Len(rotations.transforms)
        THEN IF last = None THEN rn ELSE AsMatrix(ClaimedTimes(rn, last))
        ELSE AsMatrix(ClaimedTimes(rn, ClaimedProduct(rotations, f, n + 1, last)))

BasisMatch(basis_vectors, rotations) ==
    /\ basis_vectors # None
    /\ Len(basis_vectors.rows) = RotationSize(rotations)
    /\ Len(basis_vectors.rows[1]) = RotationSize(rotations)

\* C8: whenever animate_rotation completes its composite rotator, every frame f
\* of it is R1[f] x R2[f] x ... x Rn[f] of the rotators in the order of
\* rotations["transforms"], times the Q of the basis when a k x k basis is
\* given, the same Q in every frame.
C8_CompositeIsOrderedProduct ==
    (/\ Returned("animate_rotation")
     /\ computed_points # None
     /\ locals.raised = None)
        => /\ locals.composite_rotator.shape[3] = call.rotations.segments + 1
           /\ \A f \in 0..call.rotations.segments :
                 frame_of(locals.composite_rotator, f) =
                    ClaimedProduct(call.rotations, f, 1,
                        IF BasisMatch(call.basis_vectors, call.rotations)
                        THEN qr(matrix_of(call.basis_vectors.rows)) ELSE None)

\* C8's case: two rotators that do not commute in some frame, a k x k basis
\* whose Q is not the identity, and the composite complete.
C8_Witness ==
    /\ Returned("animate_rotation")
    /\ computed_points # None
    /\ locals.raised = None
    /\ Len(call.rotations.transforms) = 2
    /\ BasisMatch(call.basis_vectors, call.rotations)
    /\ locals.orthonormal_basis # identity(RotationSize(call.rotations))
    /\ \E f \in 0..call.rotations.segments :
          LET r1 == frame_of(locals.rotators[1], f)
              r2 == frame_of(locals.rotators[2], f)
          IN  ClaimedTimes(r1, r2) # ClaimedTimes(r2, r1)
    /\ raised = None

\* C9: after animate_rotation returns normally, the frames have the shape
\* (segments + 1, *points.shape) and every cell frames[f, c, p] is row c of the
\* frame f of the composite rotator times the point vector points[ : , p].
C9_FramesAreTransformedPoints ==
    (/\ Returned("animate_rotation")
     /\ computed_points # None
     /\ raised = None)
        => /\ animation_frames # None
           /\ animation_frames.frames.shape =
                 <<call.rotations.segments + 1>> \o computed_points.points.shape
           /\ \A idx \in DOMAIN animation_frames.frames.data :
                 animation_frames.frames.data[idx] =
                    SumTo(computed_points.points.shape[1],
                          [c \in 0..(computed_points.points.shape[1] - 1) |->
                              locals.composite_rotator.data[<<idx[2], c, idx[1]>>]
                                 * computed_points.points.data[<<c>> \o Tail(Tail(idx))]])

\* C2, for the clouds that hold a point vector: the claim with one more
\* premise, a grid of at least one position.
C2_MismatchRaisesOnPoints ==
    (/\ Returned("animate_rotation")
     /\ computed_points # None
     /\ invalid_cells(call.rotations) = {}
     /\ AllSquare(call.rotations)
     /\ RotationSize(call.rotations) # computed_points.points.shape[1]
     /\ DOMAIN computed_points.points.data # {})
        => IsError(raised, "ValueError")

\* C10: with no point cloud held, animate_rotation raises.
C10_NoCloudRaises ==
    (Returned("animate_rotation") /\ computed_points = None) => raised # None

\* The angle of frame f of a sweep: min at frame 0, max at the last frame,
\* evenly spaced between
ClaimedAngle(rotate_basis, f) ==
    IF rotate_basis.segments = 0 THEN rotate_basis.min
    ELSE rotate_basis.min
            + (f * (rotate_basis.max - rotate_basis.min)) \div rotate_basis.segments

\* The identity of size k except for the block [[cos, -sin], [sin, cos]] at the
\* rows and columns e0 and e1
ClaimedRotation(k, e0, e1, theta) ==
    [r \in 0..(k - 1) |-> [c \in 0..(k - 1) |->
        IF <<r, c>> \in {<<e0, e0>>, <<e1, e1>>} THEN np_cos(theta)
        ELSE IF <<r, c>> = <<e0, e1>> THEN -np_sin(theta)
        ELSE IF <<r, c>> = <<e1, e0>> THEN np_sin(theta)
        ELSE IF r = c THEN 1
        ELSE 0]]

\* Element r of the vector at index j of the vector set the claim describes:
\* the initial vector, rotated if j is the designated vector v
ClaimedVector(basis, rotation, j, v, r) ==
    IF j = v
    THEN SumTo(Len(basis[1]), [c \in 0..(Len(basis[1]) - 1) |->
            rotation[r][c] * basis[v + 1][c + 1]])
    ELSE basis[j + 1][r + 1]

\* C11: when generate_orthonormal_bases returns, there are segments+1 frames;
\* in every frame the rotation matrix is the identity except for the block
\* [[cos, -sin], [sin, cos]] of the frame's angle at the rotate_elements pair,
\* the vector rotate_vector of the vector set before orthonormalization is that
\* matrix applied to the initial vector, and every other vector of the set is
\* the initial one.
C11_OnlyDesignatedVectorRotated ==
    (Returned("generate_orthonormal_bases") /\ raised = None)
        => LET basis == call.basis
               k == Len(basis[1])
               m == Len(basis)
               e0 == py_index(call.rotate_basis.rotate_elements[1], k)
               e1 == py_index(call.rotate_basis.rotate_elements[2], k)
               v == py_index(call.rotate_basis.rotate_vector, m)
               rotation(f) == ClaimedRotation(k, e0, e1,
                                              ClaimedAngle(call.rotate_basis, f))
           IN  /\ locals.transforms.shape[3] = call.rotate_basis.segments + 1
               /\ locals.vector_set.shape = <<k, m, call.rotate_basis.segments + 1>>
               /\ locals.orthonormals.shape[3] = call.rotate_basis.segments + 1
               /\ call.return_vector_set => locals.result.items[2] = locals.vector_set
               /\ \A f \in 0..call.rotate_basis.segments :
                     /\ \A r \in 0..(k - 1), c \in 0..(m - 1) :
                           locals.transforms.data[<<r, c, f>>] = rotation(f)[r][c]
                     /\ \A r \in 0..(k - 1), j \in 0..(m - 1) :
                           locals.vector_set.data[<<r, j, f>>]
                               = ClaimedVector(basis, rotation(f), j, v, r)

\* A sweep of several frames over three vectors of three elements that turns
\* the designated vector away from its initial value in some frame
C11_Witness ==
    /\ Returned("generate_orthonormal_bases")
    /\ raised = None
    /\ call.return_vector_set
    /\ call.rotate_basis.segments >= 2
    /\ Len(call.basis) = 3
    /\ call.rotate_basis.rotate_elements[1] # call.rotate_basis.rotate_elements[2]
    /\ \E f \in 0..call.rotate_basis.segments, r \in 0..2 :
          LET v == py_index(call.rotate_basis.rotate_vector, 3)
          IN  locals.vector_set.data[<<r, v, f>>] # call.basis[v + 1][r + 1]

\* C12: whenever the runner holds animation frames it holds a point cloud too,
\* and the ranges of the frames are the ranges of the cloud it holds: the
\* frames were derived from that cloud.
C12_FramesOfHeldCloud ==
    animation_frames # None
        => /\ computed_points # None
           /\ animation_frames.ranges = computed_points.ranges

====
